---- MODULE Spec2Model ----
(***************************************************************************)
(* State-machine model of the AttackEngine of src/attack_engine.py: the    *)
(* shared AttackStats, the stop event, the worker threads (udp_flood,      *)
(* tcp_flood, icmp_flood, slowloris) and the start/stop/status operations  *)
(* the bot handler of src/bot_handler.py calls.                            *)
(*                                                                         *)
(* A worker step is one shared-memory access.  `x += 1` on a field of      *)
(* AttackStats is a load followed by a store: `with threading.Lock():`     *)
(* locks a lock created on the spot, which no other thread holds, so the   *)
(* two halves of an increment of different threads interleave freely.      *)
(***************************************************************************)
EXTENDS Integers, Sequences, FiniteSets, TLC

VARIABLES
    max_requests,   \* AttackEngine.max_requests
    thread_count,   \* AttackEngine.thread_count
    timeout,        \* AttackEngine.timeout
    stats,          \* AttackEngine.stats : AttackStats
    stop_event,     \* AttackEngine._stop_event (TRUE = set)
    threads,        \* AttackEngine._threads : sequence of thread ids
    worker,         \* thread id -> the thread's frame (pc and locals)
    now,            \* the clock time.time() reads
    caller,         \* position of the thread calling the engine
    ret,            \* what the last engine call returned or raised
    budget,         \* number of runs the model still lets start_attack begin
    hist,           \* history: facts about the past the claims speak of
    states,         \* bot_handler.states[admin_id]: the admin's dialogue
    button,         \* callback data of the START button the bot last sent
    vc,             \* VCExtractor.attack_target: its locals and its tasks
    starter,        \* threads inside start_attack at the same time
    panel,          \* the bot's status_messages entry, its live updater
                    \* task, and the sender and fate of the last event
    manager         \* BotManager: where run() stands, the two clients and
                    \* the calls of _start_client_with_retry

vars == <<max_requests, thread_count, timeout, stats, stop_event, threads,
          worker, now, caller, ret, budget, hist, states, button, vc,
          starter, panel, manager>>

----------------------------------------------------------------------------
(* Bounds of the model *)

MaxThreads == 2
MaxRequests == 2
MaxRuns == 1
RestartRuns == 2
CapRuns == 3
MaxTime == 2
MaxFail == 1
KeepAlive == 1
AttackTimeout == 1
RaceRequests == 4
PanelRuns == 2
\* attack_target: worker tasks, seconds of duration, entries of the payload
\* pool (100 in the source), values an entry may hold, and the value at which
\* the model stops counting packets.
VcThreads == 2
VcDuration == 3
PoolSize == 2
PayloadValues == {0, 1}
VcCount == 1

(* Program constants *)

None == 0
HeldCap == 1
NoIP == <<>>
JoinTimeout == 10
UdpBlock == 2
TcpBlock == 2
IcmpBlock == 1
SlowBlock == 10

----------------------------------------------------------------------------
(* Inputs *)

\* Dotted-quad texts the admin may type, as their four numbers.
Loopback == <<127, 0, 0, 1>>
Global == <<8, 8, 8, 8>>
BadQuad == <<256, 1, 1, 1>>
IPTexts == {Loopback, Global, BadQuad}

is_valid_ip(ip) == \A k \in 1..4 : ip[k] \in 0..255

Ports == {80}
Methods == {"udp", "tcp", "icmp", "slowloris", "auto"}

\* Thread ids: enough for MaxRuns runs of MaxThreads threads and for
\* CapRuns runs of one thread.
TIDs == 1..(IF MaxRuns * MaxThreads > CapRuns THEN MaxRuns * MaxThreads
            ELSE CapRuns)

----------------------------------------------------------------------------
(* The bot's dialogue *)

\* states without an entry for the admin (states.pop), and the chat before
\* any START button was sent.  announced is the method the message that
\* carries the button shows.
NoState == [step |-> "none", ip |-> NoIP, port |-> 0, method |-> "none"]
NoButton == [sent |-> FALSE, ip |-> NoIP, port |-> 0, method |-> "none",
             announced |-> "none"]

Bot == <<states, button>>

\* Who sends an event to the bot: the configured admin or somebody else.
AdminId == 1
Stranger == 2
Senders == {AdminId, Stranger}

\* No entry in status_messages, no updater task, no event handled yet.
\* updater is "live" while the task of _live_status_updater runs, "over"
\* after it has returned and "KeyError" after that exception has ended it;
\* raised is the exception that left the handler of the last event.
NoPanel == [sender |-> 0, status_messages |-> FALSE, updater |-> "none",
            raised |-> "none"]

\* BotManager (main.py).  The two pyrogram clients, in the order initialize
\* starts them and shutdown stops them.
Clients == <<"user", "bot">>

\* What client.start() can raise, as initialize tells the errors apart.
ClientErrors == {"SessionExpired", "ConnectionError"}

\* The default of _start_client_with_retry's max_retries; initialize passes
\* no other value.
max_retries == 3

\* One call of _start_client_with_retry: the loop variable, the result of
\* each client.start() so far, the seconds of each asyncio.sleep so far, and
\* how the call ended.
NoRetry == [attempt |-> 0, results |-> <<>>, waits |-> <<>>,
            outcome |-> "none", raised |-> "none"]

\* BotManager after __init__: nothing started, _initialized False.
NoManager == [pc |-> "new", initialized |-> FALSE, client |-> 0,
              retry |-> [c \in 1..Len(Clients) |-> NoRetry],
              session |-> [c \in 1..Len(Clients) |-> FALSE],
              stops |-> <<>>]

\* Threads that call start_attack at the same time, none of them in a call.
Callers == 1..2
NoStarter == [pc |-> "idle", ret |-> "none", ip |-> NoIP, port |-> 0,
              method |-> "none"]
NoStarters == [c \in Callers |-> NoStarter]

----------------------------------------------------------------------------
(* AttackStats *)

AttackStats ==
    [total_requests |-> 0, successful |-> 0, failed |-> 0,
     start_time |-> None, end_time |-> None, is_running |-> FALSE,
     target_ip |-> NoIP, target_port |-> 80, threads_active |-> 0]

reset(s) ==
    [s EXCEPT !.total_requests = 0, !.successful = 0, !.failed = 0,
              !.start_time = None, !.end_time = None,
              !.is_running = FALSE, !.threads_active = 0]

\* duration without its `if not self.start_time` guard.
duration_unguarded(s, t) ==
    (IF s.end_time # None THEN s.end_time ELSE t) - s.start_time

\* `if not self.start_time` and `self.end_time or time.time()` test
\* truthiness: None and 0 are the same to them.
duration(s, t) ==
    IF s.start_time = None THEN 0
    ELSE (IF s.end_time # None THEN s.end_time ELSE t) - s.start_time

\* A float quotient, kept exact as numerator and denominator.
Ratio(n, d) == [num |-> n, den |-> d]

success_rate(s) ==
    IF s.total_requests = 0 THEN Ratio(0, 1)
    ELSE Ratio(s.successful * 100, s.total_requests)

\* rps without its `if duration == 0` guard.
rps_unguarded(s, t) == Ratio(s.total_requests, duration(s, t))

rps(s, t) ==
    IF duration(s, t) = 0 THEN Ratio(0, 1)
    ELSE Ratio(s.total_requests, duration(s, t))

----------------------------------------------------------------------------
(* Thread frames *)

\* The frame of a thread that does not exist (not yet started, or returned).
NoFrame(p) ==
    [pc |-> p, kind |-> "none", max_per_thread |-> 0,
     local_count |-> 0, reg |-> 0, i |-> 0, res |-> "none", nfail |-> 0,
     conns |-> 0]

\* The frame of a thread start_attack has just started on attack_func.
\* udp_flood begins by creating its socket, the others with their loop.
NewFrame(k, per_thread) ==
    [NoFrame(IF k = "udp_flood" THEN "init" ELSE "loop")
        EXCEPT !.kind = k, !.max_per_thread = per_thread]

\* A thread is over when its function has returned ("done") or an exception
\* has left it ("raised").
Alive(w) == worker[w].pc \notin {"unborn", "done", "raised"}

\* The function start_attack binds attack_func to (lines 242-251).
attack_func(method) ==
    CASE method = "udp" -> "udp_flood"
      [] method = "tcp" -> "tcp_flood"
      [] method = "icmp" -> "icmp_flood"
      [] method = "slowloris" -> "slowloris"
      [] OTHER -> "udp_flood"

\* _check_limits without its test of the stop event (lines 80-81).
_check_limits_ignores_stop ==
    /\ stats.total_requests < max_requests
    /\ duration(stats, now) < timeout

_check_limits ==
    /\ ~stop_event
    /\ stats.total_requests < max_requests
    /\ duration(stats, now) < timeout

\* The condition of a worker's while loop.
LoopCond(w) ==
    /\ _check_limits
    /\ worker[w].local_count < worker[w].max_per_thread
    /\ stats.is_running

\* A thread left over from an earlier run: start_attack has replaced the
\* list _threads it was in.
Stale(w) == \A k \in 1..Len(threads) : threads[k] # w

\* The longest one blocking call of a worker can take, in seconds.
BlockTime(k) ==
    CASE k = "udp_flood" -> UdpBlock
      [] k = "tcp_flood" -> TcpBlock
      [] k = "icmp_flood" -> IcmpBlock
      [] k = "slowloris" -> SlowBlock
      [] OTHER -> 0

\* At "send" a worker is in its connect or send, at "ka_send" in the
\* keep-alive send and the sleep after it.
Blocked(w) == worker[w].pc \in {"send", "ka_send"}

\* t.join(timeout=10) can return while t is alive only if t is in a blocking
\* call that can last as long as the join waits.
CanOutlastJoin(w) ==
    Alive(w) /\ Blocked(w) /\ BlockTime(worker[w].kind) >= JoinTimeout

\* Sockets w has opened and not closed.  udp_flood closes its one socket in
\* `finally`; tcp_flood and slowloris call s.close() on the path where
\* connect and send succeeded only, so each caught error leaves the socket
\* of that iteration to the garbage collector; icmp_flood opens none.
Unclosed(w) ==
    IF worker[w].kind \in {"tcp_flood", "slowloris"} THEN worker[w].nfail ELSE 0

----------------------------------------------------------------------------
(* Steps shared by the workers *)

SetFrame(w, f) == worker' = [worker EXCEPT ![w] = f]

Frame == <<max_requests, thread_count, timeout, threads, caller, budget,
           states, button, vc, starter, panel, manager>>

\* ret holds what the step just taken returned to the engine's caller; a
\* step that returns nothing leaves it empty.
NoReturn == ret' = [op |-> "none", val |-> "none", idle |-> FALSE]

\* The test of `while ...:` : into the body, or out to the exit code, which
\* in slowloris closes what is left in `connections` (lines 213-218).
WhileTest(w, body) ==
    /\ worker[w].pc = "loop"
    /\ SetFrame(w, IF LoopCond(w) THEN [worker[w] EXCEPT !.pc = body]
                   ELSE [worker[w] EXCEPT !.pc = "exit", !.conns = 0])
    /\ UNCHANGED <<stats, stop_event, now, hist>>
    /\ NoReturn
    /\ UNCHANGED Frame

\* An operation against the target has been issued by w; hist.late holds
\* the live threads of the current run that issued one while the stop event
\* was set.
Issued(w) ==
    hist' = [hist EXCEPT !.stale = @ \/ Stale(w),
                         !.late = IF stop_event /\ ~Stale(w) THEN @ \cup {w}
                                  ELSE @]

\* Store half of `self.stats.total_requests += 1`.
StoreTotal(w, next) ==
    /\ worker[w].pc = "tot_st"
    /\ stats' = [stats EXCEPT !.total_requests = worker[w].reg + 1]
    /\ SetFrame(w, [worker[w] EXCEPT !.pc = next])
    /\ hist' = [hist EXCEPT !.stale = @ \/ Stale(w)]
    /\ UNCHANGED <<stop_event, now>>
    /\ NoReturn
    /\ UNCHANGED Frame

\* Load half of `self.stats.successful += 1`.
LoadSuccessful(w) ==
    /\ worker[w].pc = "suc_ld"
    /\ SetFrame(w, [worker[w] EXCEPT !.pc = "suc_st", !.reg = stats.successful])
    /\ UNCHANGED <<stats, stop_event, now, hist>>
    /\ NoReturn
    /\ UNCHANGED Frame

\* Store half of `self.stats.successful += 1`, then `local_count += 1`
\* (bump = 1) where the worker's code has it on this path.
StoreSuccessful(w, bump) ==
    /\ worker[w].pc = "suc_st"
    /\ stats' = [stats EXCEPT !.successful = worker[w].reg + 1]
    /\ SetFrame(w, [worker[w] EXCEPT !.pc = "loop", !.reg = 0, !.res = "none",
                                     !.local_count = @ + bump])
    /\ hist' = [hist EXCEPT !.succ = @ + 1, !.stale = @ \/ Stale(w)]
    /\ UNCHANGED <<stop_event, now>>
    /\ NoReturn
    /\ UNCHANGED Frame

\* Load half of `self.stats.failed += 1`.
LoadFailed(w) ==
    /\ worker[w].pc = "fail_ld"
    /\ SetFrame(w, [worker[w] EXCEPT !.pc = "fail_st", !.reg = stats.failed])
    /\ UNCHANGED <<stats, stop_event, now, hist>>
    /\ NoReturn
    /\ UNCHANGED Frame

\* Store half of `self.stats.failed += 1`; the sleep that follows it in
\* udp_flood, tcp_flood and slowloris touches no state.
StoreFailed(w, bump) ==
    /\ worker[w].pc = "fail_st"
    /\ stats' = [stats EXCEPT !.failed = worker[w].reg + 1]
    /\ SetFrame(w, [worker[w] EXCEPT !.pc = "loop", !.reg = 0, !.res = "none",
                                     !.local_count = @ + bump,
                                     !.nfail = @ + 1])
    /\ hist' = [hist EXCEPT !.fail = @ + 1, !.stale = @ \/ Stale(w)]
    /\ UNCHANGED <<stop_event, now>>
    /\ NoReturn
    /\ UNCHANGED Frame

\* `self.stats.threads_active -= 1` and the return of the thread's function.
ExitLoad(w) ==
    /\ worker[w].pc = "exit"
    /\ SetFrame(w, [worker[w] EXCEPT !.pc = "exit_st", !.reg = stats.threads_active])
    /\ UNCHANGED <<stats, stop_event, now, hist>>
    /\ NoReturn
    /\ UNCHANGED Frame

ExitStore(w) ==
    /\ worker[w].pc = "exit_st"
    /\ stats' = [stats EXCEPT !.threads_active = worker[w].reg - 1]
    /\ SetFrame(w, NoFrame("done"))
    /\ hist' = [hist EXCEPT !.exited = TRUE, !.late = @ \ {w}]
    /\ UNCHANGED <<stop_event, now>>
    /\ NoReturn
    /\ UNCHANGED Frame

\* The outcomes of one network call: it succeeds, it fails with socket.error
\* (a timeout, a refused connection, ...), or it raises something else.  A
\* worker fails at most MaxFail times, to keep the model finite.
Outcomes(w) ==
    {"ok", "exc"}
        \cup (IF worker[w].nfail < MaxFail THEN {"oserror", "timeout"} ELSE {})
----------------------------------------------------------------------------
(* The workers *)

\* One network call of w, ending in outcome o.  On "ok" the worker goes on
\* to load total_requests; on "oserror" (a hard error of the system) and on
\* "timeout" (socket.timeout or BlockingIOError: both are OSError, which
\* `except socket.error` catches) to load failed; "exc" is `break`.
\* The call and the load that follows it are one step: the call touches no
\* shared state.
NetCall(w, o) ==
    /\ o \in Outcomes(w)
    /\ SetFrame(w, CASE o = "ok" ->
                        [worker[w] EXCEPT !.pc = "tot_st",
                                          !.reg = stats.total_requests]
                     [] o \in {"oserror", "timeout"} ->
                        [worker[w] EXCEPT !.pc = "fail_st", !.res = o,
                                          !.reg = stats.failed]
                     [] OTHER -> [worker[w] EXCEPT !.pc = "exit"])
    /\ Issued(w)
    /\ UNCHANGED <<stats, stop_event, now>>
    /\ NoReturn
    /\ UNCHANGED Frame

\* Lines 90-93 of udp_flood, which stand before its `try`:
\* socket.socket() returns the socket, or raises OSError (no descriptor
\* left), and then the exception leaves udp_flood and ends the thread with
\* threads_active as it was.
OpenSocket(w, o) ==
    /\ worker[w].pc = "init"
    /\ IF o = "ok"
       THEN /\ SetFrame(w, [worker[w] EXCEPT !.pc = "loop"])
            /\ UNCHANGED hist
       ELSE /\ SetFrame(w, NoFrame("raised"))
            /\ hist' = [hist EXCEPT !.exited = TRUE]
    /\ UNCHANGED <<stats, stop_event, now>>
    /\ NoReturn
    /\ UNCHANGED Frame

udp_flood(w) ==
    /\ worker[w].kind = "udp_flood"
    /\ \/ \E o \in {"ok", "oserror"} : OpenSocket(w, o)
       \/ WhileTest(w, "send")
       \/ worker[w].pc = "send"
            /\ \E o \in {"ok", "oserror", "timeout", "exc"} : NetCall(w, o)
       \/ StoreTotal(w, "suc_ld")
       \/ LoadSuccessful(w)
       \/ StoreSuccessful(w, 1)
       \/ StoreFailed(w, 0)
       \/ ExitLoad(w)
       \/ ExitStore(w)

tcp_flood(w) ==
    /\ worker[w].kind = "tcp_flood"
    /\ \/ WhileTest(w, "send")
       \/ worker[w].pc = "send" /\ \E o \in {"ok", "oserror", "exc"} : NetCall(w, o)
       \/ StoreTotal(w, "suc_ld")
       \/ LoadSuccessful(w)
       \/ StoreSuccessful(w, 1)
       \/ StoreFailed(w, 0)
       \/ ExitLoad(w)
       \/ ExitStore(w)

\* os.system("ping ...") returns 0 or not; total_requests is incremented
\* either way, then successful or failed, then local_count.
Ping(w, o) ==
    /\ worker[w].pc = "send"
    /\ o \in Outcomes(w)
    /\ SetFrame(w, IF o = "exc" THEN [worker[w] EXCEPT !.pc = "exit"]
                   ELSE [worker[w] EXCEPT !.pc = "tot_st", !.res = o,
                                          !.reg = stats.total_requests])
    /\ Issued(w)
    /\ UNCHANGED <<stats, stop_event, now>>
    /\ NoReturn
    /\ UNCHANGED Frame

icmp_flood(w) ==
    /\ worker[w].kind = "icmp_flood"
    /\ \/ WhileTest(w, "send")
       \/ \E o \in {"ok", "oserror", "exc"} : Ping(w, o)
       \/ StoreTotal(w, IF worker[w].res = "ok" THEN "suc_ld" ELSE "fail_ld")
       \/ LoadSuccessful(w)
       \/ StoreSuccessful(w, 1)
       \/ LoadFailed(w)
       \/ StoreFailed(w, 1)
       \/ ExitLoad(w)
       \/ ExitStore(w)

\* connect and the partial request header, then connections.append(s).
\* Any exception is caught by `except Exception`, which counts a failure and
\* stays in the loop.  conns is len(connections).
Connect(w, o) ==
    /\ worker[w].pc = "send"
    /\ o \in Outcomes(w) \ {"exc"}
    /\ SetFrame(w, IF o = "ok" THEN [worker[w] EXCEPT !.pc = "ka", !.i = 0,
                                                      !.conns = @ + 1]
                   ELSE [worker[w] EXCEPT !.pc = "fail_st", !.reg = stats.failed])
    /\ Issued(w)
    /\ UNCHANGED <<stats, stop_event, now>>
    /\ NoReturn
    /\ UNCHANGED Frame

\* The head of `for _ in range(10)` without lines 190-191.
KeepAliveTest_unchecked(w) ==
    /\ worker[w].pc = "ka"
    /\ SetFrame(w, IF worker[w].i < KeepAlive
                   THEN [worker[w] EXCEPT !.pc = "ka_send"]
                   ELSE [worker[w] EXCEPT !.pc = "tot_st", !.i = 0,
                                          !.conns = @ - 1,
                                          !.reg = stats.total_requests])
    /\ UNCHANGED <<stats, stop_event, now, hist>>
    /\ NoReturn
    /\ UNCHANGED Frame

\* The head of `for _ in range(10)` with its `if not self._check_limits():
\* break`.  Leaving the loop closes the socket, removes it from
\* `connections` (lines 198-200) and loads total_requests.
KeepAliveTest(w) ==
    /\ worker[w].pc = "ka"
    /\ SetFrame(w, IF worker[w].i < KeepAlive /\ _check_limits
                   THEN [worker[w] EXCEPT !.pc = "ka_send"]
                   ELSE [worker[w] EXCEPT !.pc = "tot_st", !.i = 0,
                                          !.conns = @ - 1,
                                          !.reg = stats.total_requests])
    /\ UNCHANGED <<stats, stop_event, now, hist>>
    /\ NoReturn
    /\ UNCHANGED Frame

\* KeepAliveSend whose failed send leaves the loop without lines 198-200.
KeepAliveSend_keeps(w, o) ==
    /\ worker[w].pc = "ka_send"
    /\ SetFrame(w, IF o = "ok" THEN [worker[w] EXCEPT !.pc = "ka", !.i = @ + 1]
                   ELSE [worker[w] EXCEPT !.pc = "tot_st", !.i = 0,
                                          !.reg = stats.total_requests])
    /\ Issued(w)
    /\ UNCHANGED <<stats, stop_event, now>>
    /\ NoReturn
    /\ UNCHANGED Frame

\* s.send of the keep-alive header and time.sleep(10), or the bare except
\* that breaks out of the for loop, after which the socket is closed and
\* removed from `connections` as on every way out of that loop.
KeepAliveSend(w, o) ==
    /\ worker[w].pc = "ka_send"
    /\ SetFrame(w, IF o = "ok" THEN [worker[w] EXCEPT !.pc = "ka", !.i = @ + 1]
                   ELSE [worker[w] EXCEPT !.pc = "tot_st", !.i = 0,
                                          !.conns = @ - 1,
                                          !.reg = stats.total_requests])
    /\ Issued(w)
    /\ UNCHANGED <<stats, stop_event, now>>
    /\ NoReturn
    /\ UNCHANGED Frame

slowloris(w) ==
    /\ worker[w].kind = "slowloris"
    /\ \/ WhileTest(w, "send")
       \/ \E o \in {"ok", "oserror"} : Connect(w, o)
       \/ KeepAliveTest(w)
       \/ \E o \in {"ok", "oserror"} : KeepAliveSend(w, o)
       \/ StoreTotal(w, "suc_ld")
       \/ LoadSuccessful(w)
       \/ StoreSuccessful(w, 1)
       \/ StoreFailed(w, 0)
       \/ ExitLoad(w)
       \/ ExitStore(w)

----------------------------------------------------------------------------
(* The engine's operations *)

\* A call and how it ended: what it returned or raised, and whether the
\* engine was idle (is_running false) when it was made.  A returned
\* dictionary is StopResult or StatusResult of the state the call returned in.
Returned(op, val, idle) == [op |-> op, val |-> val, idle |-> idle]

\* Thread ids of the threads the next run starts.
spawned == Cardinality({w \in TIDs : worker[w].pc # "unborn"})
NewThreads == [k \in 1..thread_count |-> spawned + k]

\* Lines 229-234: the statistics of a run that begins at time t.
BeginStats(s, target_ip, target_port, t) ==
    [reset(s) EXCEPT !.target_ip = target_ip, !.target_port = target_port,
                     !.is_running = TRUE, !.start_time = t]

\* Line 256 left out.
LaunchStats_forgotten(s) == s

\* Line 256.
LaunchStats(s) == [s EXCEPT !.threads_active = thread_count]

\* start_attack from `# Reset stats` on.  With thread_count = 0 line 238
\* raises ZeroDivisionError, after lines 229-235 have run.
BeginRun(target_ip, target_port, method) ==
    /\ budget > 0
    /\ budget' = budget - 1
    /\ stop_event' = FALSE
    /\ hist' = [hist EXCEPT !.succ = 0, !.fail = 0, !.exited = FALSE,
                            !.late = {}]
    /\ IF thread_count = 0
       THEN /\ stats' = BeginStats(stats, target_ip, target_port, now)
            /\ ret' = Returned("start_attack", "ZeroDivisionError", TRUE)
            /\ UNCHANGED <<threads, worker>>
       ELSE /\ stats' = LaunchStats(BeginStats(stats, target_ip, target_port, now))
            /\ threads' = NewThreads
            /\ worker' = [w \in TIDs |->
                            IF \E k \in 1..thread_count : NewThreads[k] = w
                            THEN NewFrame(attack_func(method),
                                          max_requests \div thread_count)
                            ELSE worker[w]]
            /\ ret' = Returned("start_attack", "True", TRUE)

\* start_attack with `self.stats.reset()` above the is_running test.
start_attack_resets_first(target_ip, target_port, method) ==
    /\ caller.pc = "idle"
    /\ IF stats.is_running
       THEN /\ ret' = Returned("start_attack", "False", FALSE)
            /\ stats' = reset(stats)
            /\ UNCHANGED <<stop_event, threads, worker, budget, hist>>
       ELSE BeginRun(target_ip, target_port, method)
    /\ UNCHANGED <<max_requests, thread_count, timeout, now, caller>>
    /\ UNCHANGED Bot
    /\ UNCHANGED <<vc, starter, panel, manager>>

\* What start_attack does to the engine, whoever calls it.
StartCall(target_ip, target_port, method) ==
    /\ caller.pc = "idle"
    /\ IF stats.is_running
       THEN /\ ret' = Returned("start_attack", "False", FALSE)
            /\ UNCHANGED <<stats, stop_event, threads, worker, budget, hist>>
       ELSE BeginRun(target_ip, target_port, method)
    /\ UNCHANGED <<max_requests, thread_count, timeout, now, caller>>

start_attack(target_ip, target_port, method) ==
    /\ StartCall(target_ip, target_port, method)
    /\ UNCHANGED Bot
    /\ UNCHANGED <<vc, starter, panel, manager>>

\* The dictionary stop_attack returns.
StopResult(s, t) ==
    [total |-> s.total_requests, successful |-> s.successful,
     failed |-> s.failed, duration |-> duration(s, t),
     success_rate |-> success_rate(s), rps |-> rps(s, t)]

\* stop_attack_set without line 273.
stop_attack_set_keeps_running ==
    /\ caller.pc = "idle"
    /\ stop_event' = TRUE
    /\ stats' = [stats EXCEPT !.end_time = now]
    /\ caller' = [pc |-> "join", was_running |-> stats.is_running]
    /\ NoReturn
    /\ UNCHANGED <<max_requests, thread_count, timeout, threads, worker, now,
                   budget, hist>>
    /\ UNCHANGED Bot
    /\ UNCHANGED <<vc, starter, panel, manager>>

\* stop_attack up to the joins: the stop event, is_running and end_time.
StopSetCall ==
    /\ caller.pc = "idle"
    /\ stop_event' = TRUE
    /\ stats' = [stats EXCEPT !.is_running = FALSE, !.end_time = now]
    /\ caller' = [pc |-> "join", was_running |-> stats.is_running]
    /\ NoReturn
    /\ UNCHANGED <<max_requests, thread_count, timeout, threads, worker, now,
                   budget, hist>>

stop_attack_set ==
    /\ StopSetCall
    /\ UNCHANGED Bot
    /\ UNCHANGED <<vc, starter, panel, manager>>

\* The joins are over, each because its thread has returned or because the
\* 10 seconds have passed, and stop_attack returns its dictionary.
StopJoinCall ==
    /\ caller.pc = "join"
    /\ \A k \in 1..Len(threads) : ~Alive(threads[k]) \/ CanOutlastJoin(threads[k])
    /\ ret' = Returned("stop_attack", "dict", ~caller.was_running)
    /\ caller' = [pc |-> "idle", was_running |-> FALSE]
    /\ UNCHANGED <<max_requests, thread_count, timeout, stats, stop_event,
                   threads, worker, now, budget, hist>>

stop_attack_join ==
    /\ StopJoinCall
    /\ UNCHANGED Bot
    /\ UNCHANGED <<vc, starter, panel, manager>>

\* The dictionary get_status returns; get_status changes nothing.
StatusResult(s, t) ==
    [running |-> s.is_running, target |-> s.target_ip, port |-> s.target_port,
     progress |-> s.total_requests, max |-> max_requests,
     successful |-> s.successful, failed |-> s.failed,
     duration |-> duration(s, t), threads_active |-> s.threads_active,
     success_rate |-> success_rate(s), rps |-> rps(s, t)]

StatusCall ==
    /\ caller.pc = "idle"
    /\ ret' = Returned("get_status", "dict", ~stats.is_running)
    /\ UNCHANGED <<max_requests, thread_count, timeout, stats, stop_event,
                   threads, worker, now, caller, budget, hist>>

get_status ==
    /\ StatusCall
    /\ UNCHANGED Bot
    /\ UNCHANGED <<vc, starter, panel, manager>>

\* The bot's confirm callback: whatever address, port and method the START
\* button carries goes to start_attack.  The button was made by handle_input,
\* which lets through every text that is_valid_ip accepts.
AcceptedIPs == {t \in IPTexts : is_valid_ip(t)}

confirm_attack_cb ==
    \E ip \in AcceptedIPs, port \in Ports, method \in Methods :
        start_attack(ip, port, method)

\* The same callback from a START button for a slowloris run.
confirm_slowloris ==
    \E ip \in AcceptedIPs, port \in Ports : start_attack(ip, port, "slowloris")

\* Time passes.
Tick ==
    /\ now < MaxTime
    /\ now' = now + 1
    /\ NoReturn
    /\ UNCHANGED <<max_requests, thread_count, timeout, stats, stop_event,
                   threads, worker, caller, budget, hist>>
    /\ UNCHANGED Bot
    /\ UNCHANGED <<vc, starter, panel, manager>>

\* start_attack called from several threads: the parts of the call between
\* which another thread can run.  Nothing in start_attack holds a lock.

TwoRest == <<max_requests, thread_count, timeout, now, caller, ret, budget,
             states, button, vc, panel, manager>>

\* Lines 225-227: the test of is_running.
start_attack_check(c, target_ip, target_port, method) ==
    /\ starter[c].pc = "idle"
    /\ starter' = [starter EXCEPT ![c] =
                      IF stats.is_running
                      THEN [NoStarter EXCEPT !.pc = "done", !.ret = "False"]
                      ELSE [pc |-> "begin", ret |-> "none", ip |-> target_ip,
                            port |-> target_port, method |-> method]]
    /\ UNCHANGED <<stats, stop_event, threads, worker, hist>>
    /\ UNCHANGED TwoRest

\* Lines 229-235.
start_attack_begin(c) ==
    /\ starter[c].pc = "begin"
    /\ stats' = BeginStats(stats, starter[c].ip, starter[c].port, now)
    /\ stop_event' = FALSE
    /\ hist' = [hist EXCEPT !.succ = 0, !.fail = 0, !.exited = FALSE,
                            !.late = {}]
    /\ starter' = [starter EXCEPT ![c].pc = "launch"]
    /\ UNCHANGED <<threads, worker>>
    /\ UNCHANGED TwoRest

\* Lines 238-267.
start_attack_launch(c) ==
    /\ starter[c].pc = "launch"
    /\ IF thread_count = 0
       THEN /\ starter' = [starter EXCEPT ![c].pc = "done",
                                          ![c].ret = "ZeroDivisionError"]
            /\ UNCHANGED <<stats, threads, worker>>
       ELSE /\ stats' = LaunchStats(stats)
            /\ threads' = NewThreads
            /\ worker' = [w \in TIDs |->
                            IF \E k \in 1..thread_count : NewThreads[k] = w
                            THEN NewFrame(attack_func(starter[c].method),
                                          max_requests \div thread_count)
                            ELSE worker[w]]
            /\ starter' = [starter EXCEPT ![c].pc = "done", ![c].ret = "True"]
    /\ UNCHANGED <<stop_event, hist>>
    /\ UNCHANGED TwoRest

----------------------------------------------------------------------------
(* The bot's handlers *)

\* The engine's variables and the clock, which a handler that only talks to
\* the admin leaves alone.
Engine == <<max_requests, thread_count, timeout, stats, stop_event, threads,
            worker, now, caller, budget, hist>>

\* The port part of a message: digits with an optional sign, which int()
\* converts, or something int() raises ValueError on.
PortValues == {-1, 0, 22, 80, 8080, 65535, 65536}
PortTexts ==
    [numeric : {TRUE}, value : PortValues] \cup {[numeric |-> FALSE, value |-> 0]}

\* The method part of a message and str.lower() of it.
MethodTexts == {"udp", "TCP", "icmp", "http", "slow", "slowloris"}
lower(m) == IF m = "TCP" THEN "tcp" ELSE m

\* A message text as the parts text.split(':') yields: the address alone,
\* IP:PORT with any of the port texts, or IP:80:METHOD.
Texts ==
    [nparts : {1}, ip : IPTexts, port : {[numeric |-> FALSE, value |-> 0]},
     method : {"udp"}]
    \cup [nparts : {2}, ip : IPTexts, port : PortTexts, method : {"udp"}]
    \cup [nparts : {3}, ip : IPTexts, port : {[numeric |-> TRUE, value |-> 80]},
          method : MethodTexts]

\* The method handle_input shows for a port when none was typed.
detected(method, port) ==
    IF method # "auto" THEN method
    ELSE IF port \in {80, 443, 8080, 8443} THEN "http"
    ELSE IF port \in {21, 22, 23, 25, 53, 110, 143} THEN "tcp"
    ELSE "udp"

\* The specification's port range, as utils.is_valid_port tests it.
is_valid_port(p) == 1 <= p /\ p <= 65535

\* Every handler begins with the test of the sender's id.  The handler is
\* a callback of the event loop: it runs when the loop's thread is not
\* inside a call of the engine.
Authorized_anyone(sender) == TRUE

Authorized(sender) == sender = AdminId

\* The event of a sender the handler turns away: nothing but the reply.
Denied(sender) ==
    /\ panel' = [panel EXCEPT !.sender = sender]
    /\ NoReturn
    /\ UNCHANGED Bot
    /\ UNCHANGED Engine
    /\ UNCHANGED <<vc, starter, manager>>

\* The panel once a handler has taken the event of sender.
Delivered(sender) == [panel EXCEPT !.sender = sender, !.raised = "none"]

\* A handler that has passed the sender test and talks to the sender only.
Talk(sender) ==
    /\ panel' = Delivered(sender)
    /\ NoReturn
    /\ UNCHANGED Engine
    /\ UNCHANGED <<vc, starter, manager>>

\* Past the sender test the sender is the admin: the entries of states and
\* status_messages a handler writes are the admin's.
start_cmd(sender) ==
    /\ caller.pc = "idle"
    /\ IF ~Authorized(sender) THEN Denied(sender)
       ELSE /\ states' = NoState
            /\ UNCHANGED button
            /\ Talk(sender)

start_test_cb(sender) ==
    /\ caller.pc = "idle"
    /\ IF ~Authorized(sender) THEN Denied(sender)
       ELSE /\ states' = [NoState EXCEPT !.step = "waiting_ip"]
            /\ UNCHANGED button
            /\ Talk(sender)

settings_cb(sender) ==
    /\ caller.pc = "idle"
    /\ IF ~Authorized(sender) THEN Denied(sender)
       ELSE /\ UNCHANGED Bot
            /\ Talk(sender)

\* cancel and back_menu: both tables lose the sender's entry.
cancel_cb(sender) ==
    /\ caller.pc = "idle"
    /\ IF ~Authorized(sender) THEN Denied(sender)
       ELSE /\ states' = NoState
            /\ UNCHANGED button
            /\ panel' = [Delivered(sender) EXCEPT !.status_messages = FALSE]
            /\ NoReturn
            /\ UNCHANGED Engine
            /\ UNCHANGED <<vc, starter, manager>>

\* handle_input on an IPv4 text: a reply and nothing else when the text has
\* one part, when int() fails on the port or when is_valid_ip rejects the
\* address; otherwise the confirm state and a START button that carry
\* address, port and method as typed, "auto" when no method was typed; the
\* message shows the method detected from the port.  No test of the port's
\* range and none of the method's name is made.
handle_input(sender, text) ==
    /\ caller.pc = "idle"
    /\ IF ~Authorized(sender) THEN Denied(sender)
       ELSE /\ states.step = "waiting_ip"
            /\ IF text.nparts < 2 \/ ~text.port.numeric \/ ~is_valid_ip(text.ip)
               THEN UNCHANGED Bot
               ELSE LET method == IF text.nparts > 2 THEN lower(text.method)
                                  ELSE "auto"
                    IN  /\ states' = [step |-> "confirm", ip |-> text.ip,
                                      port |-> text.port.value,
                                      method |-> method]
                        /\ button' = [sent |-> TRUE, ip |-> text.ip,
                                      port |-> text.port.value,
                                      method |-> method,
                                      announced |->
                                          detected(method, text.port.value)]
            /\ Talk(sender)

\* confirm_attack_cb on the START button: the three fields of its callback
\* data, none of which holds a "_", go to start_attack; `states` is not
\* looked at.  When start_attack returns True the message goes into
\* status_messages and the updater task is created; when it returns False or
\* raises, `except Exception` included, the handler only edits the message.
confirm_attack_cb_pressed(sender) ==
    /\ button.sent
    /\ caller.pc = "idle"
    /\ IF ~Authorized(sender) THEN Denied(sender)
       ELSE /\ StartCall(button.ip, button.port, button.method)
            /\ panel' = IF ret'.val = "True"
                        THEN [Delivered(sender) EXCEPT
                                !.status_messages = TRUE, !.updater = "live"]
                        ELSE Delivered(sender)
            /\ UNCHANGED Bot
            /\ UNCHANGED <<vc, starter, manager>>

\* stop_cb up to the joins of stop_attack: the test of is_running, the pop
\* from status_messages and stop_attack's first three lines.  No await
\* stands between them: the loop's thread stays in the call until the joins
\* are over.
stop_cb(sender) ==
    /\ caller.pc = "idle"
    /\ IF ~Authorized(sender) THEN Denied(sender)
       ELSE IF ~stats.is_running
       THEN /\ UNCHANGED Bot
            /\ Talk(sender)
       ELSE /\ StopSetCall
            /\ panel' = [Delivered(sender) EXCEPT !.status_messages = FALSE]
            /\ UNCHANGED Bot
            /\ UNCHANGED <<vc, starter, manager>>

\* stop_attack returns to stop_cb, which pops the admin's entry of states
\* and shows the five fields of the dictionary, all of which it holds.
stop_cb_returns ==
    /\ StopJoinCall
    /\ states' = NoState
    /\ UNCHANGED button
    /\ UNCHANGED <<vc, starter, panel, manager>>

\* The keys status_cb reads from the dictionary of get_status while a run
\* is on, those the updater reads for a live update, and those it reads for
\* its last message.
StatusCbReads ==
    {"running", "progress", "max", "method", "target", "port", "successful",
     "failed", "rps", "duration"}
UpdaterReads ==
    {"progress", "max", "method", "target", "port", "successful", "failed",
     "rps", "duration", "threads_active"}
FinishReads ==
    {"target", "port", "method", "progress", "successful", "failed",
     "duration", "rps"}

\* status_cb: get_status, then the text of a running or of an idle engine.
\* A key the dictionary lacks raises KeyError out of the handler, before the
\* message is edited and before the updater is started.
status_cb(sender) ==
    /\ caller.pc = "idle"
    /\ IF ~Authorized(sender) THEN Denied(sender)
       ELSE /\ StatusCall
            /\ panel' =
                 IF ~stats.is_running THEN Delivered(sender)
                 ELSE IF StatusCbReads \subseteq DOMAIN StatusResult(stats, now)
                 THEN [Delivered(sender) EXCEPT
                         !.status_messages = TRUE,
                         !.updater = IF panel.status_messages THEN @
                                     ELSE "live"]
                 ELSE [Delivered(sender) EXCEPT !.raised = "KeyError"]
            /\ UNCHANGED Bot
            /\ UNCHANGED <<vc, starter, manager>>

\* One wake-up of the updater task after its asyncio.sleep(3): without an
\* entry in status_messages it returns; with one it calls get_status and
\* edits the message, the live text while the run is on and the last text,
\* after which it pops the entry, when it is over.  `except Exception`
\* around the whole body logs a KeyError and the task ends.
live_status_updater ==
    /\ panel.updater = "live"
    /\ caller.pc = "idle"
    /\ IF ~panel.status_messages
       THEN /\ panel' = [panel EXCEPT !.updater = "over"]
            /\ NoReturn
            /\ UNCHANGED Engine
       ELSE /\ StatusCall
            /\ LET reads == IF stats.is_running THEN UpdaterReads
                            ELSE FinishReads
               IN  panel' =
                     IF ~(reads \subseteq DOMAIN StatusResult(stats, now))
                     THEN [panel EXCEPT !.updater = "KeyError"]
                     ELSE IF stats.is_running THEN panel
                     ELSE [panel EXCEPT !.status_messages = FALSE,
                                        !.updater = "over"]
    /\ UNCHANGED Bot
    /\ UNCHANGED <<vc, starter, manager>>

----------------------------------------------------------------------------
(* VCExtractor.attack_target of src/vc_detector.py *)

\* The tasks of attack_target run on one event loop: a task keeps the loop
\* until it reaches an await that suspends it.  A step of the model is what a
\* task does from one such point to the next; a worker whose send does not
\* suspend stays the running task (pc "run") and no other task can step.

\* idx is kept modulo the pool's size, which leaves idx % len(payloads) as
\* it is.
VcWrap == PoolSize

\* A worker task: idx and data are its locals; n counts the iterations it has
\* finished, entry and at are the pool index and the iteration number of the
\* send it last began.
NoTask == [pc |-> "none", idx |-> 0, data |-> 0, n |-> 0, entry |-> 0 - 1,
           at |-> 0 - 1]

\* Before attack_target is called.  stats['bytes'] is 1200 times
\* stats['sent'] and is not kept apart.
NoCall == [pc |-> "idle", duration |-> 0, slept |-> 0, stop_event |-> FALSE,
           payloads |-> <<>>, stats |-> [sent |-> 0, failed |-> 0],
           task |-> [k \in 1..VcThreads |-> NoTask]]

VcRest == <<max_requests, thread_count, timeout, stats, stop_event, threads,
            worker, now, caller, ret, budget, hist, states, button, starter,
            panel, manager>>

\* No task holds the event loop.
LoopFree == \A k \in 1..VcThreads : vc.task[k].pc # "run"

Counted(c) == IF c < VcCount THEN c + 1 ELSE c

\* The call up to its first suspension: the event, the counters, the pool,
\* one task per worker, then either the first sleep or, when the duration is
\* not positive, the finally block and the gather.
attack_target(seconds, nthreads, pool) ==
    /\ vc.pc = "idle"
    /\ vc' = [NoCall EXCEPT
                !.pc = IF 0 < seconds THEN "sleep" ELSE "gather",
                !.duration = seconds,
                !.stop_event = ~(0 < seconds),
                !.payloads = pool,
                !.task = [k \in 1..VcThreads |->
                            IF k <= nthreads THEN [NoTask EXCEPT !.pc = "new"]
                            ELSE NoTask]]
    /\ UNCHANGED VcRest

\* asyncio.sleep(2) returns, at the earliest two seconds after it began and
\* later when the loop was busy (late): the loop test, then the next sleep or
\* the finally block up to the gather.
sleep_returns(late) ==
    /\ vc.pc = "sleep"
    /\ LoopFree
    /\ LET slept == vc.slept + 1
           over == late \/ 2 * slept >= vc.duration
       IN  vc' = [vc EXCEPT !.slept = slept,
                            !.pc = IF over THEN "gather" ELSE "sleep",
                            !.stop_event = over]
    /\ UNCHANGED VcRest

gather_returns ==
    /\ vc.pc = "gather"
    /\ LoopFree
    /\ \A k \in 1..VcThreads : vc.task[k].pc \in {"none", "done"}
    /\ vc' = [vc EXCEPT !.pc = "done"]
    /\ UNCHANGED VcRest

\* The first step of a task: the socket and idx = 0.
worker_start(k) ==
    /\ vc.task[k].pc = "new"
    /\ LoopFree
    /\ vc' = [vc EXCEPT !.task[k].pc = "run"]
    /\ UNCHANGED VcRest

\* The end of an iteration: the counter of its outcome and idx += 1, which
\* stands after the try statement.
EndIteration_success_only(t, o) ==
    [t EXCEPT !.pc = "run",
              !.idx = IF o = "sent" THEN (@ + 1) % VcWrap ELSE @,
              !.n = (@ + 1) % VcWrap]

EndIteration(t, o) ==
    [t EXCEPT !.pc = "run", !.idx = (@ + 1) % VcWrap, !.n = (@ + 1) % VcWrap]

EndStats(st, o) ==
    IF o = "sent" THEN [st EXCEPT !.sent = Counted(@)]
    ELSE [st EXCEPT !.failed = Counted(@)]

\* One pass of the running task through its loop: the test of the event, the
\* pick of the payload and the send, which is done at once ("sent"), raises
\* at once ("raised", which the bare except takes) or suspends the task until
\* the socket is writable ("suspended").
worker_iterate(k, o) ==
    /\ vc.task[k].pc = "run"
    /\ LET t == vc.task[k]
           entry == t.idx % Len(vc.payloads)
           began == [t EXCEPT !.data = vc.payloads[entry + 1],
                              !.entry = entry, !.at = t.n]
       IN  IF vc.stop_event
           THEN vc' = [vc EXCEPT !.task[k].pc = "done"]
           ELSE IF o = "suspended"
           THEN vc' = [vc EXCEPT !.task[k] = [began EXCEPT !.pc = "wait"]]
           ELSE vc' = [vc EXCEPT !.task[k] = EndIteration(began, o),
                                 !.stats = EndStats(@, o)]
    /\ UNCHANGED VcRest

\* The loop resumes a suspended send: it is done or it raises.
worker_resume(k, o) ==
    /\ vc.task[k].pc = "wait"
    /\ LoopFree
    /\ vc' = [vc EXCEPT !.task[k] = EndIteration(@, o),
                        !.stats = EndStats(@, o)]
    /\ UNCHANGED VcRest

----------------------------------------------------------------------------

Init ==
    /\ max_requests \in 1..MaxRequests
    /\ thread_count \in 0..MaxThreads
    /\ timeout = AttackTimeout
    /\ stats = AttackStats
    /\ stop_event = FALSE
    /\ threads = <<>>
    /\ worker = [w \in TIDs |-> NoFrame("unborn")]
    /\ now = 1
    /\ caller = [pc |-> "idle", was_running |-> FALSE]
    /\ ret = Returned("none", "none", FALSE)
    /\ budget = MaxRuns
    /\ hist = [succ |-> 0, fail |-> 0, stale |-> FALSE, exited |-> FALSE,
               late |-> {}]
    /\ states = NoState
    /\ button = NoButton
    /\ vc = NoCall
    /\ starter = NoStarters
    /\ panel = NoPanel
    /\ manager = NoManager

Next ==
    \/ confirm_attack_cb
    \/ stop_attack_set
    \/ stop_attack_join
    \/ get_status
    \/ Tick
    \/ \E w \in TIDs : udp_flood(w)
    \/ \E w \in TIDs : tcp_flood(w)
    \/ \E w \in TIDs : icmp_flood(w)
    \/ \E w \in TIDs : slowloris(w)

Spec == Init /\ [][Next]_vars

\* The engine restarted: one thread, one request, slowloris runs begun and
\* stopped up to RestartRuns times.
InitRestart ==
    /\ max_requests = 1
    /\ thread_count = 1
    /\ timeout = AttackTimeout
    /\ stats = AttackStats
    /\ stop_event = FALSE
    /\ threads = <<>>
    /\ worker = [w \in TIDs |-> NoFrame("unborn")]
    /\ now = 1
    /\ caller = [pc |-> "idle", was_running |-> FALSE]
    /\ ret = Returned("none", "none", FALSE)
    /\ budget = RestartRuns
    /\ hist = [succ |-> 0, fail |-> 0, stale |-> FALSE, exited |-> FALSE,
               late |-> {}]
    /\ states = NoState
    /\ button = NoButton
    /\ vc = NoCall
    /\ starter = NoStarters
    /\ panel = NoPanel
    /\ manager = NoManager

NextRestart ==
    \/ confirm_slowloris
    \/ stop_attack_set
    \/ stop_attack_join
    \/ Tick
    \/ \E w \in TIDs : slowloris(w)

SpecRestart == InitRestart /\ [][NextRestart]_vars

\* The same engine restarted up to CapRuns times on one address, within
\* one tick of the clock.
confirm_slowloris_global ==
    \E port \in Ports : start_attack(Global, port, "slowloris")

InitCap ==
    /\ max_requests = 1
    /\ thread_count = 1
    /\ timeout = AttackTimeout
    /\ stats = AttackStats
    /\ stop_event = FALSE
    /\ threads = <<>>
    /\ worker = [w \in TIDs |-> NoFrame("unborn")]
    /\ now = 1
    /\ caller = [pc |-> "idle", was_running |-> FALSE]
    /\ ret = Returned("none", "none", FALSE)
    /\ budget = CapRuns
    /\ hist = [succ |-> 0, fail |-> 0, stale |-> FALSE, exited |-> FALSE,
               late |-> {}]
    /\ states = NoState
    /\ button = NoButton
    /\ vc = NoCall
    /\ starter = NoStarters
    /\ panel = NoPanel
    /\ manager = NoManager

NextCap ==
    \/ confirm_slowloris_global
    \/ stop_attack_set
    \/ stop_attack_join
    \/ \E w \in TIDs : slowloris(w)

SpecCap == InitCap /\ [][NextCap]_vars

\* One thread of the pool, whatever function it runs.
Thread(w) == udp_flood(w) \/ tcp_flood(w) \/ icmp_flood(w) \/ slowloris(w)

\* Scheduling: a thread that can take a step takes one in the end (every
\* network call returns or times out: settimeout(2), settimeout(10),
\* ping -W 1), and a join that can return does.
Fairness ==
    /\ WF_vars(stop_attack_join)
    /\ \A w \in TIDs : WF_vars(Thread(w))

SpecLive == Init /\ [][Next]_vars /\ Fairness

\* The admin's dialogue with the bot in front of an engine of one thread
\* and one request.
InitBot ==
    /\ max_requests = 1
    /\ thread_count = 1
    /\ timeout = AttackTimeout
    /\ stats = AttackStats
    /\ stop_event = FALSE
    /\ threads = <<>>
    /\ worker = [w \in TIDs |-> NoFrame("unborn")]
    /\ now = 1
    /\ caller = [pc |-> "idle", was_running |-> FALSE]
    /\ ret = Returned("none", "none", FALSE)
    /\ budget = MaxRuns
    /\ hist = [succ |-> 0, fail |-> 0, stale |-> FALSE, exited |-> FALSE,
               late |-> {}]
    /\ states = NoState
    /\ button = NoButton
    /\ vc = NoCall
    /\ starter = NoStarters
    /\ panel = NoPanel
    /\ manager = NoManager

NextBot ==
    \/ start_test_cb(AdminId)
    \/ cancel_cb(AdminId)
    \/ \E text \in Texts : handle_input(AdminId, text)
    \/ confirm_attack_cb_pressed(AdminId)
    \/ \E w \in TIDs : Thread(w)

SpecBot == InitBot /\ [][NextBot]_vars

\* Every handler of the bot, events of the admin and of a stranger, in front
\* of an engine of one thread and one request that may be started
\* PanelRuns times.
PanelTexts ==
    {[nparts |-> 2, ip |-> Loopback,
      port |-> [numeric |-> TRUE, value |-> 80], method |-> "udp"],
     [nparts |-> 3, ip |-> Loopback,
      port |-> [numeric |-> TRUE, value |-> 80], method |-> "tcp"]}

InitPanel ==
    /\ max_requests = 1
    /\ thread_count = 1
    /\ timeout = AttackTimeout
    /\ stats = AttackStats
    /\ stop_event = FALSE
    /\ threads = <<>>
    /\ worker = [w \in TIDs |-> NoFrame("unborn")]
    /\ now = 1
    /\ caller = [pc |-> "idle", was_running |-> FALSE]
    /\ ret = Returned("none", "none", FALSE)
    /\ budget = PanelRuns
    /\ hist = [succ |-> 0, fail |-> 0, stale |-> FALSE, exited |-> FALSE,
               late |-> {}]
    /\ states = NoState
    /\ button = NoButton
    /\ vc = NoCall
    /\ starter = NoStarters
    /\ panel = NoPanel
    /\ manager = NoManager

NextPanel ==
    \/ \E sender \in Senders : start_cmd(sender)
    \/ \E sender \in Senders : start_test_cb(sender)
    \/ \E sender \in Senders : settings_cb(sender)
    \/ \E sender \in Senders : cancel_cb(sender)
    \/ \E sender \in Senders, text \in PanelTexts : handle_input(sender, text)
    \/ \E sender \in Senders : confirm_attack_cb_pressed(sender)
    \/ \E sender \in Senders : stop_cb(sender)
    \/ stop_cb_returns
    \/ \E sender \in Senders : status_cb(sender)
    \/ live_status_updater
    \/ \E w \in TIDs : udp_flood(w)
    \/ \E w \in TIDs : tcp_flood(w)

SpecPanel == InitPanel /\ [][NextPanel]_vars

\* Two udp_flood threads with two requests each, in one run.
confirm_udp == \E port \in Ports : start_attack(Loopback, port, "udp")

InitRace ==
    /\ max_requests = RaceRequests
    /\ thread_count = 2
    /\ timeout = AttackTimeout
    /\ stats = AttackStats
    /\ stop_event = FALSE
    /\ threads = <<>>
    /\ worker = [w \in TIDs |-> NoFrame("unborn")]
    /\ now = 1
    /\ caller = [pc |-> "idle", was_running |-> FALSE]
    /\ ret = Returned("none", "none", FALSE)
    /\ budget = MaxRuns
    /\ hist = [succ |-> 0, fail |-> 0, stale |-> FALSE, exited |-> FALSE,
               late |-> {}]
    /\ states = NoState
    /\ button = NoButton
    /\ vc = NoCall
    /\ starter = NoStarters
    /\ panel = NoPanel
    /\ manager = NoManager

NextRace ==
    \/ confirm_udp
    \/ get_status
    \/ \E w \in TIDs : udp_flood(w)

SpecRace == InitRace /\ [][NextRace]_vars

\* attack_target on its event loop, the engine left idle.
Pools == [1..PoolSize -> PayloadValues]

InitVC ==
    /\ max_requests = 1
    /\ thread_count = 0
    /\ timeout = AttackTimeout
    /\ stats = AttackStats
    /\ stop_event = FALSE
    /\ threads = <<>>
    /\ worker = [w \in TIDs |-> NoFrame("unborn")]
    /\ now = 1
    /\ caller = [pc |-> "idle", was_running |-> FALSE]
    /\ ret = Returned("none", "none", FALSE)
    /\ budget = 0
    /\ hist = [succ |-> 0, fail |-> 0, stale |-> FALSE, exited |-> FALSE,
               late |-> {}]
    /\ states = NoState
    /\ button = NoButton
    /\ vc = NoCall
    /\ starter = NoStarters
    /\ panel = NoPanel
    /\ manager = NoManager

NextVC ==
    \/ \E d \in 0..VcDuration, n \in 0..VcThreads, pool \in Pools :
          attack_target(d, n, pool)
    \/ \E late \in BOOLEAN : sleep_returns(late)
    \/ gather_returns
    \/ \E k \in 1..VcThreads : worker_start(k)
    \/ \E k \in 1..VcThreads, o \in {"sent", "raised", "suspended"} :
          worker_iterate(k, o)
    \/ \E k \in 1..VcThreads, o \in {"sent", "raised"} : worker_resume(k, o)

\* The event loop runs every callback that is ready: a timer that is due, a
\* task that can start or go on, a send whose socket is writable.
FairnessVC ==
    /\ WF_vars(\E late \in BOOLEAN : sleep_returns(late))
    /\ WF_vars(gather_returns)
    /\ \A k \in 1..VcThreads :
          /\ WF_vars(worker_start(k))
          /\ WF_vars(\E o \in {"sent", "raised", "suspended"} :
                        worker_iterate(k, o))
          /\ WF_vars(\E o \in {"sent", "raised"} : worker_resume(k, o))

SpecVC == InitVC /\ [][NextVC]_vars /\ FairnessVC

\* Two threads that call start_attack on an idle engine of at most one
\* thread, and the threads they start.
InitTwo ==
    /\ max_requests = 1
    /\ thread_count \in 0..1
    /\ timeout = AttackTimeout
    /\ stats = AttackStats
    /\ stop_event = FALSE
    /\ threads = <<>>
    /\ worker = [w \in TIDs |-> NoFrame("unborn")]
    /\ now = 1
    /\ caller = [pc |-> "idle", was_running |-> FALSE]
    /\ ret = Returned("none", "none", FALSE)
    /\ budget = 0
    /\ hist = [succ |-> 0, fail |-> 0, stale |-> FALSE, exited |-> FALSE,
               late |-> {}]
    /\ states = NoState
    /\ button = NoButton
    /\ vc = NoCall
    /\ starter = NoStarters
    /\ panel = NoPanel
    /\ manager = NoManager

NextTwo ==
    \/ \E c \in Callers, port \in Ports, method \in {"udp", "tcp"} :
          start_attack_check(c, Loopback, port, method)
    \/ \E c \in Callers : start_attack_begin(c)
    \/ \E c \in Callers : start_attack_launch(c)
    \/ \E w \in TIDs : udp_flood(w)
    \/ \E w \in TIDs : tcp_flood(w)

SpecTwo == InitTwo /\ [][NextTwo]_vars

----------------------------------------------------------------------------
(* Properties *)

\* What the call that has just returned handed back, when it is a dictionary.
StatusNow == StatusResult(stats, now)
StopNow == StopResult(stats, now)

\* Some run has begun and every thread ever started has returned.
AllExited == threads # <<>> /\ \A w \in TIDs : ~Alive(w)

\* The engine has never been started: start_attack sets target_ip on every
\* path past its is_running test and nothing clears it.
NeverStarted == stats.target_ip = NoIP

\* C1: every snapshot get_status or stop_attack can return has
\* total_requests (progress, total) equal to successful + failed.
C1_SnapshotBalanced ==
    /\ StatusNow.progress = StatusNow.successful + StatusNow.failed
    /\ StopNow.total = StopNow.successful + StopNow.failed

\* The target validator of the specification's safe mode: loopback, private
\* and link-local IPv4 addresses.
SafeTarget(ip) ==
    \/ ip[1] = 127
    \/ ip[1] = 10
    \/ ip[1] = 172 /\ ip[2] \in 16..31
    \/ ip[1] = 192 /\ ip[2] = 168
    \/ ip[1] = 169 /\ ip[2] = 254

\* C2: no worker of the current run exists unless the run's target is one
\* the safe-mode validator accepts.
C2_OnlySafeTargets ==
    \A w \in TIDs : Alive(w) /\ ~Stale(w) => SafeTarget(stats.target_ip)

\* C3: a start_attack made while is_running is true returns False and leaves
\* the statistics, the stop event, the thread list and the threads as they
\* were.
C3_StartWhileRunning ==
    [][(ret'.op = "start_attack" /\ stats.is_running) =>
          /\ ret'.val = "False"
          /\ stats' = stats
          /\ stop_event' = stop_event
          /\ threads' = threads
          /\ worker' = worker]_vars

C3_Witness ==
    /\ ret.op = "start_attack"
    /\ ret.val = "False"
    /\ stats.is_running
    /\ stats.total_requests > 0
    /\ \E w \in TIDs : Alive(w)

\* C4: a start_attack that does not return True (it returns False or raises)
\* leaves the engine as it was.
C4_FailedStartNoEffect ==
    [][(ret'.op = "start_attack" /\ ret'.val # "True") =>
          /\ stats' = stats
          /\ stop_event' = stop_event
          /\ threads' = threads
          /\ worker' = worker]_vars

\* The run's duration has elapsed or its request cap is reached.
LimitReached ==
    \/ stats.total_requests >= max_requests
    \/ duration(stats, now) >= timeout

\* C5: when a run has ended by its limits with no stop_attack (the stop event
\* is still clear) and all its workers have exited, is_running is false.
C5_SelfStopIdle ==
    (AllExited /\ LimitReached /\ ~stop_event /\ caller.pc = "idle")
        => ~stats.is_running

\* C6: once all workers have exited, successful and failed equal the number
\* of increments the workers made to each since the run began.
C6_NoLostUpdate ==
    AllExited => stats.successful = hist.succ /\ stats.failed = hist.fail

\* C7: total_requests never exceeds max_requests + thread_count.
C7_CapOvershoot == stats.total_requests <= max_requests + thread_count

\* C8: no thread of an earlier run issues an operation or writes a counter
\* once a later run has begun, and no more than thread_count threads are
\* alive.
C8_StopOneWay ==
    /\ ~hist.stale
    /\ Cardinality({w \in TIDs : Alive(w)}) <= thread_count

\* C9: after a start_attack that started the threads, and until a thread
\* exits, exactly thread_count threads are alive and threads_active equals
\* thread_count.
C9_ActiveWorkers ==
    ((threads # <<>> \/ (ret.op = "start_attack" /\ ret.val = "True"))
        /\ ~hist.exited) =>
        /\ Len(threads) = thread_count
        /\ Cardinality({threads[k] : k \in 1..Len(threads)}) = thread_count
        /\ \A k \in 1..Len(threads) : Alive(threads[k])
        /\ StatusNow.threads_active = thread_count

C9_Witness ==
    /\ thread_count >= 2
    /\ ~hist.exited
    /\ stats.total_requests > 0
    /\ StatusNow.threads_active = thread_count
    /\ \A k \in 1..Len(threads) : Alive(threads[k])
    /\ Len(threads) = thread_count

Zero(r) == r.num = 0 /\ r.den # 0

ZeroStop(d) ==
    /\ d.total = 0 /\ d.successful = 0 /\ d.failed = 0 /\ d.duration = 0
    /\ Zero(d.success_rate) /\ Zero(d.rps)

ZeroStatus(d) ==
    /\ d.progress = 0 /\ d.successful = 0 /\ d.failed = 0 /\ d.duration = 0
    /\ Zero(d.success_rate) /\ Zero(d.rps)

Finite(r) == r.den > 0 /\ r.num >= 0

\* C11: in every state the snapshots of get_status and stop_attack can be
\* computed: no quotient has a zero divisor, and duration, rps and
\* success_rate are not negative.
C11_RatesDefined ==
    /\ StatusNow.duration >= 0
    /\ Finite(StatusNow.rps)
    /\ Finite(StatusNow.success_rate)
    /\ StopNow.duration >= 0
    /\ Finite(StopNow.rps)
    /\ Finite(StopNow.success_rate)

\* A snapshot taken in the second the run began, requests already counted.
C11_Witness ==
    /\ ret.op = "get_status"
    /\ stats.is_running
    /\ stats.start_time = now
    /\ stats.total_requests > 0
    /\ StatusNow.duration = 0

\* C12: stop_attack returns, the threads that are still alive left behind,
\* and when it returns the stop event is set and is_running is false.
C12_StopReturns ==
    /\ [](ret.op = "stop_attack" => stop_event /\ ~stats.is_running)
    /\ (caller.pc = "join") ~> (ret.op = "stop_attack")

\* stop_attack has returned from a run while a thread of the run is alive.
C12_Witness ==
    /\ ret.op = "stop_attack"
    /\ ~ret.idle
    /\ stop_event
    /\ ~stats.is_running
    /\ \E k \in 1..Len(threads) : Alive(threads[k])

\* C13: once the stop event is set no thread begins another operation (its
\* loop test and its keep-alive test lead out), and every thread alive
\* returns unless a new run clears the event.
C13_CooperativeCancel ==
    /\ [][\A w \in TIDs :
            stop_event => ~(/\ worker[w].pc \in {"loop", "ka"}
                            /\ worker'[w].pc \in {"send", "ka_send"})]_vars
    /\ \A w \in TIDs : (stop_event /\ Alive(w)) ~> (~Alive(w) \/ ~stop_event)

\* A slowloris thread has left its loop on the stop event alone: no request
\* was ever counted and the run's time was not up.
C13_Witness ==
    /\ stop_event
    /\ stats.total_requests = 0
    /\ duration(stats, now) < timeout
    /\ \E w \in TIDs : /\ worker[w].kind = "slowloris"
                       /\ worker[w].pc = "exit"
                       /\ worker[w].local_count = 0

\* C14: a thread that has left its loop and run its cleanup, with nothing
\* but the threads_active decrement ahead of it, has closed every socket it
\* opened.
C14_SocketsReleased ==
    \A w \in TIDs : worker[w].pc \in {"exit", "exit_st"} => Unclosed(w) = 0

\* The protocol selectors of the specification and the worker each names.
Selectors == {"udp", "tcp", "http", "slow"}

WorkerNamed(selector) ==
    CASE selector = "udp" -> "udp_flood"
      [] selector = "tcp" -> "tcp_flood"
      [] selector = "http" -> "http_flood"
      [] selector = "slow" -> "slowloris"

\* C15: a run started from a START button whose method is one of the
\* selectors udp, tcp, http, slow runs threads of the worker of that name.
C15_SelectorDispatch ==
    [][(ret'.op = "start_attack" /\ ret'.val = "True"
            /\ button.method \in Selectors) =>
          \A k \in 1..Len(threads') :
              worker'[threads'[k]].kind = WorkerNamed(button.method)]_vars

\* C16: the engine runs against ports 1..65535 only.
C16_PortInRange == stats.is_running => is_valid_port(stats.target_port)

\* C19: no exception leaves a thread's function; a step of a thread leaves
\* is_running, the stop event and the other threads as they were; and a
\* caught socket error is counted in `failed` with the thread back at its
\* loop test.
C19_FaultIsolation ==
    /\ [](\A w \in TIDs : worker[w].pc # "raised")
    /\ [][\A w \in TIDs :
            (worker[w].pc # "unborn" /\ worker'[w] # worker[w]) =>
                /\ stats'.is_running = stats.is_running
                /\ stop_event' = stop_event
                /\ \A v \in TIDs \ {w} : worker'[v] = worker[v]
                /\ worker[w].pc = "fail_st" =>
                       /\ stats'.failed = worker[w].reg + 1
                       /\ worker'[w].pc = "loop"]_vars

\* C20: once successful + failed has reached max_requests, no thread of
\* udp_flood, tcp_flood or slowloris goes from its loop test into another
\* operation.
C20_AttemptsCapped ==
    [][\A w \in TIDs :
          (/\ worker[w].kind \in {"udp_flood", "tcp_flood", "slowloris"}
           /\ stats.successful + stats.failed >= max_requests
           /\ worker[w].pc = "loop") => worker'[w].pc # "send"]_vars

\* C17: the three counters are never negative, and no step other than a
\* start_attack makes one of them smaller.
C17_MonotonicCounters ==
    /\ [](stats.total_requests >= 0 /\ stats.successful >= 0 /\ stats.failed >= 0)
    /\ [][ret'.op # "start_attack" =>
            /\ stats'.total_requests >= stats.total_requests
            /\ stats'.successful >= stats.successful
            /\ stats'.failed >= stats.failed]_vars

\* w has written no counter yet: it has completed no operation, caught no
\* error, and is at or before the first store of its first increment.
CountedNothing(w) ==
    /\ worker[w].local_count = 0
    /\ worker[w].nfail = 0
    /\ worker[w].pc \in {"init", "loop", "send", "ka", "ka_send", "tot_st"}

\* C18: while the threads of the current run have counted nothing, the
\* counters of the run are zero: nothing of an earlier run is in them.
C18_NoCarryOver ==
    (/\ stats.is_running
     /\ threads # <<>>
     /\ \A k \in 1..Len(threads) : CountedNothing(threads[k]))
        => /\ stats.total_requests = 0
           /\ stats.successful = 0
           /\ stats.failed = 0

\* w makes a network call in this step: the sendto, the connect with the
\* request that follows it, the ping, or a keep-alive send.
Calls(w) == worker[w].pc \in {"send", "ka_send"} /\ worker'[w] # worker[w]

C22_WouldBlockNotCounted ==
    [][\A w \in TIDs :
          (/\ worker[w].kind = "udp_flood"
           /\ worker[w].pc = "fail_st"
           /\ worker'[w] # worker[w]) =>
              /\ worker'[w].pc = "loop"
              /\ worker[w].res = "timeout" => stats'.failed = stats.failed
              /\ worker[w].res = "oserror" => stats'.failed = worker[w].reg + 1]_vars

\* C23: `connections` of a slowloris thread never holds more than one
\* socket, and no other thread holds any; a keep-alive send that fails takes
\* the socket out of the list and the thread goes on to count the request
\* and test its loop again.
C23_HeldConnections ==
    /\ [](\A w \in TIDs :
            /\ worker[w].conns \in 0..HeldCap
            /\ worker[w].conns > 0 => worker[w].kind = "slowloris")
    /\ [][\A w \in TIDs :
            (worker[w].pc = "ka_send" /\ worker'[w].pc # "ka"
                /\ worker'[w] # worker[w]) =>
                /\ worker'[w].conns = worker[w].conns - 1
                /\ worker'[w].pc = "tot_st"]_vars

\* A slowloris thread in its second iteration, out of the keep-alive loop
\* on its second connection and the list empty again.
C23_Witness ==
    \E w \in TIDs : /\ worker[w].kind = "slowloris"
                    /\ worker[w].local_count = 1
                    /\ worker[w].pc = "tot_st"
                    /\ worker[w].conns = 0

\* C24: attack_target terminates: once it is called, the stop event is set
\* in the end and every worker task has left its loop, whatever the sends do.
VcWorkersExited == \A k \in 1..VcThreads : vc.task[k].pc \in {"none", "done"}
C24_Terminates ==
    (vc.pc # "idle") ~> (vc.stop_event /\ VcWorkersExited)

\* C25: the pool exists before any worker task does, nothing writes to it
\* afterwards, and the send a worker begins in its i-th iteration, failed
\* iterations counted, takes entry i mod pool_size.
PoolKept == vc.pc # "idle" => vc'.payloads = vc.payloads
C25_RoundRobin ==
    /\ [](\A k \in 1..VcThreads :
             /\ vc.task[k].pc # "none" => Len(vc.payloads) = PoolSize
             /\ vc.task[k].entry >= 0 =>
                   /\ vc.task[k].entry = vc.task[k].at % PoolSize
                   /\ vc.task[k].data = vc.payloads[vc.task[k].entry + 1])
    /\ [][PoolKept]_vars

\* A worker that has gone round the pool once, its last send from the last
\* entry, with a failed and a successful send counted, and is back at the
\* first entry.
C25_Witness ==
    \E k \in 1..VcThreads :
        /\ vc.task[k].at = PoolSize - 1
        /\ vc.task[k].entry = PoolSize - 1
        /\ vc.task[k].n = 0
        /\ vc.task[k].idx = 0
        /\ vc.stats.failed > 0
        /\ vc.stats.sent > 0

\* The method the help text of the bot promises for a port.
AutoTable(port) ==
    IF port \in {80, 443} THEN "http"
    ELSE IF port \in {21, 22, 25} THEN "tcp"
    ELSE "udp"

\* C26: a run started from a START button made without a method runs the
\* threads of the method the bot announced, which is the one the table gives
\* for the port.
C26_AutoAsAnnounced ==
    [][(ret'.op = "start_attack" /\ ret'.val = "True"
            /\ button.method = "auto") =>
          /\ button.announced = AutoTable(button.port)
          /\ \A k \in 1..Len(threads') :
                worker'[threads'[k]].kind = WorkerNamed(button.announced)]_vars

\* C27: of the calls of start_attack made on an idle engine with no stop
\* between them, at most one returns True, and no more than thread_count
\* threads are started.
C27_OneStarter ==
    /\ Cardinality({c \in Callers : starter[c].ret = "True"}) <= 1
    /\ spawned <= thread_count

\* C28: threads_active lies in 0..thread_count and is the number of threads
\* that have not returned from their function.
Live == {w \in TIDs : Alive(w)}
C28_ExactLiveCount ==
    /\ 0 <= stats.threads_active
    /\ stats.threads_active <= thread_count
    /\ stats.threads_active = Cardinality(Live)

\* C29: successful never exceeds total_requests.
C29_SuccessWithinTotal == stats.successful <= stats.total_requests

\* C30: a stop_attack called after an earlier stop_attack, no start between
\* the two and every thread gone, leaves end_time as the first call set it,
\* and with it the dictionary a stop returns.
StoppedBefore == ~stats.is_running /\ stats.end_time # None
C30_StopIdempotent ==
    [][(caller.pc = "idle" /\ caller'.pc = "join" /\ StoppedBefore
            /\ AllExited) =>
          /\ stats'.end_time = stats.end_time
          /\ StopResult(stats', now') = StopResult(stats, now)]_vars

\* C31: a run in which no operation failed, every thread sent as often as
\* its cap allows, no stop was asked for and the timeout has not passed ends
\* with total_requests = max_requests.
RanToCaps ==
    /\ AllExited
    /\ \A w \in TIDs : worker[w].pc # "raised"
    /\ thread_count >= 1
    /\ ~stop_event
    /\ ~hist.stale
    /\ duration(stats, now) < timeout
    /\ hist.fail = 0
    /\ hist.succ = thread_count * (max_requests \div thread_count)
C31_RunReachesMax == RanToCaps => stats.total_requests = max_requests

\* C32: neither status_cb nor the updater task ends on a key that the
\* dictionary of get_status does not hold.
C32_StatusKeysPresent ==
    /\ panel.raised # "KeyError"
    /\ panel.updater # "KeyError"

\* C33: start_attack is called from the START button only while the admin's
\* entry of states is at step confirm with the address, port and method the
\* button carries.
C33_ConfirmGatesStart ==
    [][ret'.op = "start_attack" =>
          /\ states.step = "confirm"
          /\ states.ip = button.ip
          /\ states.port = button.port
          /\ states.method = button.method]_vars

\* C34: the event of a sender who is not the admin makes no call of the
\* engine and leaves states, status_messages and the engine as they were.
EngineCalls == {"start_attack", "stop_attack", "get_status"}
C34_AdminOnly ==
    [][(panel'.sender # panel.sender /\ panel'.sender # AdminId) =>
          /\ ret'.op \notin EngineCalls
          /\ states' = states
          /\ panel'.status_messages = panel.status_messages
          /\ panel'.updater = panel.updater
          /\ <<stats, stop_event, threads, worker, caller>>' =
                <<stats, stop_event, threads, worker, caller>>]_vars

\* The event of a stranger has been turned away while a run is on, a START
\* button is out and the admin has an entry in both tables.
C34_Witness ==
    /\ panel.sender = Stranger
    /\ stats.is_running
    /\ button.sent
    /\ states.step = "confirm"
    /\ panel.status_messages

----------------------------------------------------------------------------
(* BotManager: initialize, _start_client_with_retry, run and shutdown *)

\* Everything but the manager.
BootRest == <<max_requests, thread_count, timeout, stats, stop_event, threads,
              worker, now, caller, ret, budget, hist, states, button, vc,
              starter, panel>>

\* 2 ** n.
RECURSIVE Power2(_)
Power2(n) == IF n = 0 THEN 1 ELSE 2 * Power2(n - 1)

\* Line 179 with `attempt < max_retries`.
Retries_after_last(attempt) == attempt < max_retries

\* Line 179: a failed attempt other than the last is followed by a sleep.
Retries(attempt) == attempt < max_retries - 1

\* initialize once _start_client_with_retry has returned for client c: the
\* next client is started, and after the last one the handlers are
\* registered, the startup message is sent (its failure is caught),
\* _initialized is set, initialize returns True and run awaits idle().
Started(m, c) ==
    IF c < Len(Clients)
    THEN [m EXCEPT !.client = c + 1, !.pc = "try",
                   !.retry[c + 1].outcome = "running"]
    ELSE [m EXCEPT !.client = 0, !.pc = "idle", !.initialized = TRUE]

\* run calls initialize.  With an invalid configuration initialize returns
\* False and run returns; otherwise the clients, the engine and the detector
\* are constructed and the first _start_client_with_retry begins.
initialize_begins(valid) ==
    /\ manager.pc = "new"
    /\ manager' = IF valid
                  THEN [manager EXCEPT !.pc = "try", !.client = 1,
                                       !.retry[1].outcome = "running"]
                  ELSE [manager EXCEPT !.pc = "returned"]
    /\ UNCHANGED BootRest

\* One `await client.start()` of the retry loop and what follows it up to
\* the next await.  A start that succeeds ends the call; one that fails is
\* followed by asyncio.sleep(2 ** attempt), or on the last attempt by
\* `raise`, which initialize catches to return False, and then run returns.
client_start(result) ==
    /\ manager.pc = "try"
    /\ LET c == manager.client
           r == manager.retry[c]
           tried == [manager EXCEPT !.retry[c].results = Append(@, result)]
       IN  manager' =
             IF result = "ok"
             THEN Started([tried EXCEPT !.retry[c].outcome = "returned",
                                        !.session[c] = TRUE], c)
             ELSE IF Retries(r.attempt)
             THEN [tried EXCEPT !.retry[c].waits =
                                    Append(@, Power2(r.attempt)),
                                !.pc = "sleep"]
             ELSE [tried EXCEPT !.retry[c].outcome = "raised",
                                !.retry[c].raised = result,
                                !.client = 0, !.pc = "returned"]
    /\ UNCHANGED BootRest

\* asyncio.sleep returns and `for attempt in range(max_retries)` goes on; a
\* range that is used up ends the call without an exception.
sleep_returns_retry ==
    /\ manager.pc = "sleep"
    /\ LET c == manager.client
           next == manager.retry[c].attempt + 1
       IN  manager' =
             IF next < max_retries
             THEN [manager EXCEPT !.retry[c].attempt = next, !.pc = "try"]
             ELSE Started([manager EXCEPT !.retry[c].outcome = "returned"], c)
    /\ UNCHANGED BootRest

\* While run awaits idle() the bot client serves the admin's confirm button.
idle_serves ==
    /\ manager.pc = "idle"
    /\ confirm_udp

\* idle() returns or raises, and `finally` calls shutdown: _initialized is
\* True, the shutdown event is set, the monitor task is cancelled.
idle_returns ==
    /\ manager.pc = "idle"
    /\ manager' = [manager EXCEPT !.pc = "shutdown"]
    /\ UNCHANGED BootRest

\* shutdown, lines 252-260: an engine that is running is stopped.
shutdown_engine ==
    /\ manager.pc = "shutdown"
    /\ IF stats.is_running
       THEN /\ StopSetCall
            /\ manager' = [manager EXCEPT !.pc = "join",
                                          !.stops = Append(@, "engine")]
            /\ UNCHANGED Bot
            /\ UNCHANGED <<vc, starter, panel>>
       ELSE /\ manager' = [manager EXCEPT !.pc = "stop", !.client = 1]
            /\ UNCHANGED BootRest

\* stop_attack returns to shutdown, which sleeps a second and stops the
\* detector.
shutdown_joined ==
    /\ manager.pc = "join"
    /\ StopJoinCall
    /\ manager' = [manager EXCEPT !.pc = "stop", !.client = 1]
    /\ UNCHANGED Bot
    /\ UNCHANGED <<vc, starter, panel>>

\* _stop_client for the user client and then the bot client: stop() is
\* called on a client that has a session, and what it raises is caught.
\* After the second one shutdown and run return.
stop_client ==
    /\ manager.pc = "stop"
    /\ LET c == manager.client
           called == IF manager.session[c]
                     THEN [manager EXCEPT !.stops = Append(@, Clients[c])]
                     ELSE manager
       IN  manager' = IF c < Len(Clients)
                      THEN [called EXCEPT !.client = c + 1]
                      ELSE [called EXCEPT !.client = 0, !.pc = "returned"]
    /\ UNCHANGED BootRest

InitBoot ==
    /\ max_requests = 1
    /\ thread_count = 1
    /\ timeout = AttackTimeout
    /\ stats = AttackStats
    /\ stop_event = FALSE
    /\ threads = <<>>
    /\ worker = [w \in TIDs |-> NoFrame("unborn")]
    /\ now = 1
    /\ caller = [pc |-> "idle", was_running |-> FALSE]
    /\ ret = Returned("none", "none", FALSE)
    /\ budget = MaxRuns
    /\ hist = [succ |-> 0, fail |-> 0, stale |-> FALSE, exited |-> FALSE,
               late |-> {}]
    /\ states = NoState
    /\ button = NoButton
    /\ vc = NoCall
    /\ starter = NoStarters
    /\ panel = NoPanel
    /\ manager = NoManager

NextBoot ==
    \/ \E valid \in BOOLEAN : initialize_begins(valid)
    \/ \E result \in {"ok"} \cup ClientErrors : client_start(result)
    \/ sleep_returns_retry
    \/ idle_serves
    \/ idle_returns
    \/ shutdown_engine
    \/ shutdown_joined
    \/ stop_client
    \/ \E w \in TIDs : udp_flood(w)

SpecBoot == InitBoot /\ [][NextBoot]_vars

\* The attempts of one call that failed.
Failures(r) == {i \in 1..Len(r.results) : r.results[i] # "ok"}

\* C35: _start_client_with_retry calls client.start() at most max_retries
\* times; a successful start is the last attempt of the call, which then
\* returns; the sleeps are 2^0, 2^1, ... seconds, one after each failed
\* attempt but the last of the max_retries; and a call whose max_retries
\* attempts all failed raises the failure of the last attempt.
C35_RetryContract ==
    \A c \in 1..Len(Clients) :
        LET r == manager.retry[c]
            n == Len(r.results)
        IN  /\ n <= max_retries
            /\ \A i \in 1..n : r.results[i] = "ok" => i = n
            /\ (r.outcome = "returned") <=> (n > 0 /\ r.results[n] = "ok")
            /\ (r.outcome = "raised") <=>
                   (n = max_retries /\ r.results[n] # "ok")
            /\ r.outcome = "raised" => r.raised = r.results[n]
            /\ Len(r.waits) = Cardinality(Failures(r) \ {max_retries})
            /\ \A i \in 1..Len(r.waits) : r.waits[i] = Power2(i - 1)

\* The user client starts at the second attempt after one sleep of a second;
\* the bot client fails three times, with sleeps of 1 and 2 seconds, and the
\* call raises the third failure, which is not the first one.
C35_Witness ==
    /\ manager.retry[1].results = <<"ConnectionError", "ok">>
    /\ manager.retry[1].waits = <<1>>
    /\ manager.retry[1].outcome = "returned"
    /\ manager.retry[2].results =
           <<"ConnectionError", "ConnectionError", "SessionExpired">>
    /\ manager.retry[2].waits = <<1, 2>>
    /\ manager.retry[2].outcome = "raised"
    /\ manager.retry[2].raised = "SessionExpired"

\* C36: when run has returned, stop() has been called on every client that
\* was started, and no client is stopped while the engine is running.
C36_StartedClientsStopped ==
    /\ manager.pc = "returned" =>
           \A c \in 1..Len(Clients) :
               manager.session[c] =>
                   \E i \in 1..Len(manager.stops) : manager.stops[i] = Clients[c]
    /\ (\E i \in 1..Len(manager.stops) : manager.stops[i] # "engine") =>
           ~stats.is_running

====
